---- MODULE Spec2Model ----
(***************************************************************************)
(* Model of sync_wimi.py: the reconciliation of a list of source documents *)
(* (all_documents) with the documents of a Dify knowledge base             *)
(* (synchronize_with_dify), with the Dify client operations it calls.      *)
(*                                                                         *)
(* File names are sequences of one-character strings, so that the          *)
(* extension arithmetic of the code is computed, not assumed.              *)
(***************************************************************************)
EXTENDS Integers, Sequences, FiniteSets, TLC

\* ----------------------------------------------------------------- bounds
MaxD == 2
MaxE == 3
MaxTime == 2

\* --------------------------------------------------------------- constants
SUPPORTED_EXTENSIONS_UNSTRUCTURED ==
    { <<".", "c", "s", "v">>, <<".", "e", "m", "l">>, <<".", "m", "s", "g">>,
      <<".", "e", "p", "u", "b">>, <<".", "x", "l", "s", "x">>,
      <<".", "x", "l", "s">>, <<".", "h", "t", "m", "l">>,
      <<".", "h", "t", "m">>, <<".", "m", "d">>,
      <<".", "m", "a", "r", "k", "d", "o", "w", "n">>,
      <<".", "p", "d", "f">>, <<".", "t", "x", "t">>,
      <<".", "p", "p", "t", "x">>, <<".", "d", "o", "c", "x">>,
      <<".", "x", "m", "l">> }

\* ------------------------------------------------------- input universes
NameA == <<"a", ".", "p", "d", "f">>
NameB == <<"b", ".", "p", "d", "f">>
NameC == <<"c", ".", "z", "i", "p">>
Names == {NameA, NameB, NameC}

Times == 0..MaxTime
\* the source's modification time of the documents of one listing
ModTime == 1
\* the sink's clock when it stores a new document
Now == MaxTime + 1
\* the bytes of source file id; a stream read to its end yields none
Content(id) == <<id>>
Empty == <<>>
\* content of a sink document the program has not written
Old == <<0>>

\* ------------------------------------------------------------- variables
VARIABLES
    all_documents,      \* the desired list D, in enumeration order
    sink,               \* the documents of the knowledge base
    remove_duplicates,  \* --remove-duplicates
    verbose,            \* --verbose
    reliable,           \* TRUE: no source or sink call fails in this execution
    existing_documents, \* the snapshot E, in its iteration order
    pc,                 \* "start", "files", "done", "aborted"
    i,                  \* position of the loop over all_documents
    content_stream,     \* local content_stream of synchronize_with_dify
    rep,                \* TRUE when local rep is bound
    existing_document,  \* local existing_document of synchronize_with_dify
    nextId,             \* next identifier the sink hands out
    run,                \* number of the run in progress
    log,                \* the source and sink calls of this run, in order
    prev_log,           \* the calls of the run before
    names,              \* a source filename and the results of normalizing it
    datasets,           \* the knowledge bases of the sink, in listing order
    knowledge_calls,    \* the calls of get_or_create_knowledge made so far
    wimi_files,         \* the source: the entries of each folder of each project
    extensions,         \* WimiFileSource.extensions, the active extension set
    projects,           \* WimiFileSource.projects (empty before authenticate)
    workspace,          \* args.workspace, split at the commas
    workspaces_input,   \* the workspace specifier of each pair (line 486)
    folder_identifiers_or_names,  \* the folder specifiers, --folders
    include_subfolders, \* --include-subfolders
    j,                  \* position of the loop over the specifier pairs
    available_documents \* what retrieve_files_from_folder returned last

vars == << all_documents, sink, remove_duplicates, verbose, reliable,
           existing_documents, pc, i, content_stream, rep, existing_document,
           nextId, run, log, prev_log, names, datasets, knowledge_calls, wimi_files, extensions,
           projects, workspace, workspaces_input, folder_identifiers_or_names,
           include_subfolders, j, available_documents >>

\* --------------------------------------------------------------- helpers
Range(s) == {s[k] : k \in 1..Len(s)}

RECURSIVE Perms(_)
Perms(S) ==
    IF S = {} THEN {<<>>}
    ELSE UNION { {<<x>> \o p : p \in Perms(S \ {x})} : x \in S }

\* class Document
Document(name, id, date) == [name |-> name, id |-> id, date |-> date]

\* a local that holds no document yet
NoDocument == Document(<<>>, 0, 0)

Unbound == [bound |-> FALSE, id |-> 0, read |-> FALSE]
\* io.BytesIO(bytes of source file id)
BytesIO(id) == [bound |-> TRUE, id |-> id, read |-> FALSE]
\* what a reader of the stream gets: everything from the current position
ReadAll(stream) == IF stream.read THEN Empty ELSE Content(stream.id)
Consumed(stream) == [stream EXCEPT !.read = TRUE]

\* os.path.splitext(name)[1]: from the last dot, unless only dots precede it
splitext(name) ==
    LET dots == {k \in 1..Len(name) : name[k] = "."}
        last == CHOOSE k \in dots : \A l \in dots : l <= k
    IN  IF dots = {} THEN <<>>
        ELSE IF \E k \in 1..(last - 1) : name[k] # "."
             THEN SubSeq(name, last, Len(name))
             ELSE <<>>

\* line 444: '.' + os.path.splitext(file.name)[1]
UpdateExtension(name) == <<".">> \o splitext(name)
\* line 456: os.path.splitext(file.name)[1]
CreateExtension(name) == splitext(name)

Entry(op, at, id, name, content, ok) ==
    [op |-> op, at |-> at, id |-> id, name |-> name, content |-> content, ok |-> ok]

SinkIds(s) == {d.id : d \in s}

\* The effects of a call are threaded through a record m = [log, sink, nextId].
\* DifyKnowledgeClient.delete_document: never raises; a document the sink does
\* not hold cannot be deleted
delete_document(m, document_id, at, ok) ==
    LET done == ok /\ document_id \in SinkIds(m.sink)
    IN  [m EXCEPT !.log = Append(@, Entry("delete", at, document_id, <<>>, Empty, done)),
                  !.sink = IF done THEN {d \in @ : d.id # document_id} ELSE @]

\* DifyKnowledgeClient.upload_document: ok = the response holds 'document';
\* otherwise KeyError is raised (the caller looks at the last log entry)
upload_document(m, document_name, stream, at, ok) ==
    [m EXCEPT !.log = Append(@, Entry("create", at, m.nextId, document_name,
                                      ReadAll(stream), ok)),
              !.sink = IF ok THEN @ \cup {[name |-> document_name, id |-> m.nextId,
                                           date |-> Now, content |-> ReadAll(stream)]}
                       ELSE @,
              !.nextId = IF ok THEN @ + 1 ELSE @]

\* DifyKnowledgeClient.update_document: the post reads the stream; without
\* 'document' in the response the entry is deleted and uploaded again from the
\* same stream object. Returns the effects and whether an exception leaves.
update_document(m, document_name, document_id, stream, at, okUpdate, okDelete, okUpload) ==
    LET done == okUpdate /\ document_id \in SinkIds(m.sink)
        m1 == [m EXCEPT !.log = Append(@, Entry("update", at, document_id, document_name,
                                                ReadAll(stream), done)),
                        !.sink = IF done
                                 THEN {IF d.id = document_id
                                       THEN [d EXCEPT !.content = ReadAll(stream)]
                                       ELSE d : d \in @}
                                 ELSE @]
        m2 == delete_document(m1, document_id, at, okDelete)
        m3 == upload_document(m2, document_name, Consumed(stream), at, okUpload)
    IN  IF done THEN [m |-> m1, raised |-> FALSE]
        ELSE [m |-> m3, raised |-> ~okUpload]

\* variant of MaxByDate: of several maximal elements the last is taken
MaxByDate_Last(docs) ==
    docs[CHOOSE k \in 1..Len(docs) :
            /\ \A l \in 1..Len(docs) : docs[l].date <= docs[k].date
            /\ \A l \in (k + 1)..Len(docs) : docs[l].date < docs[k].date]

\* max(document_with_name, key=lambda x: x.date): the first maximal element
MaxByDate(docs) ==
    docs[CHOOSE k \in 1..Len(docs) :
            /\ \A l \in 1..Len(docs) : docs[l].date <= docs[k].date
            /\ \A l \in 1..(k - 1) : docs[l].date < docs[k].date]

RemoveAt(s, k) == SubSeq(s, 1, k - 1) \o SubSeq(s, k + 1, Len(s))

\* sorted(document_with_name, key=lambda x: x.date, reverse=True): stable
RECURSIVE SortedByDateDesc(_)
SortedByDateDesc(docs) ==
    IF docs = <<>> THEN <<>>
    ELSE LET k == CHOOSE k \in 1..Len(docs) :
                    /\ \A l \in 1..Len(docs) : docs[l].date <= docs[k].date
                    /\ \A l \in 1..(k - 1) : docs[l].date < docs[k].date
         IN  <<docs[k]>> \o SortedByDateDesc(RemoveAt(docs, k))

Tail1(s) == SubSeq(s, 2, Len(s))

\* for doc in sorted_documents: knowledge_client.delete_document(doc.id)
RECURSIVE DeleteEach(_, _, _, _)
DeleteEach(m, docs, at, fails) ==
    IF docs = <<>> THEN m
    ELSE DeleteEach(delete_document(m, docs[1].id, at, docs[1].id \notin fails),
                    Tail1(docs), at, fails)

WithName(docs, name) == SelectSeq(docs, LAMBDA d : d.name = name)
NamesOf(docs) == {d.name : d \in Range(docs)}

\* variant of InExisting: the name is never found, every document is taken as new
InExisting_Never(name, docs) == FALSE

\* line 434: document_name in [d.name for d in existing_documents]
InExisting(name, docs) == name \in NamesOf(docs)

\* variant of NonCanonical: the sort without reverse=True
Reverse(q) == [k \in 1..Len(q) |-> q[Len(q) + 1 - k]]
NonCanonical_Ascending(docs) == Tail1(Reverse(SortedByDateDesc(docs)))

\* line 439: sorted(document_with_name, key=..., reverse=True)[1:]
NonCanonical(docs) == Tail1(SortedByDateDesc(docs))

\* line 443: existing_document.date <= file.date
Stale(doc, file) == doc.date <= file.date

\* variant of Retried: no except block, nothing is uploaded a second time
Retried_Never(caught, stream) == FALSE

\* line 463: except Exception catches whatever the try block raised, and the
\* second upload needs content_stream to be bound
Retried(caught, stream) == caught /\ stream.bound

\* variant of IsOrphan: the document with sink id 1 is never taken as an orphan
IsOrphan_KeepsFirst(doc, docs) ==
    doc.name \notin NamesOf(docs) /\ doc.id # 1

\* line 474: doc.name not in [file.name for file in all_documents]
IsOrphan(doc, docs) == doc.name \notin NamesOf(docs)

\* variant of FileAt: the loop walks all_documents from its end
FileAt_Reversed(docs, k) == docs[Len(docs) + 1 - k]

\* line 429: for file in tqdm(all_documents), the k-th iteration
FileAt(docs, k) == docs[k]

M == [log |-> log, sink |-> sink, nextId |-> nextId]
Outcomes == IF reliable THEN {TRUE} ELSE BOOLEAN

\* ------------------------------------------------------------------ Init
\* the lists retrieve_files_from_folder can return: file k has source id k
DesiredLists ==
    UNION { { [k \in 1..n |-> Document(f[k], k, ModTime)] : f \in [1..n -> Names] }
            : n \in 0..MaxD }

\* the names the documents of the knowledge base have at the start
ExistingNames == <<NameA, NameB>>

\* the knowledge bases the sink can hold, up to a renaming of the sink ids (they
\* are opaque): document k has sink id k, and the ids follow name and date
SinkStates ==
    LET Kinds == (1..Len(ExistingNames)) \X Times
        Key(p) == p[1] * (MaxTime + 1) + p[2]
    IN  UNION { { { [name |-> ExistingNames[f[k][1]], id |-> k, date |-> f[k][2],
                     content |-> Old] : k \in 1..n }
                  : f \in { g \in [1..n -> Kinds] :
                              \A k \in 1..(n - 1) : Key(g[k]) <= Key(g[k + 1]) } }
                : n \in 0..MaxE }

\* the variables of the parts of the program that are not run
NamesIdle == names = <<>>
KnowledgeIdle == datasets = <<>> /\ knowledge_calls = <<>>
SourceIdle ==
    /\ wimi_files = <<>>
    /\ extensions = {}
    /\ projects = <<>>
    /\ workspace = <<>>
    /\ workspaces_input = <<>>
    /\ folder_identifiers_or_names = <<>>
    /\ include_subfolders = FALSE
    /\ j = 1
    /\ available_documents = <<>>

nameVars == << names >>
knowledgeVars == << datasets, knowledge_calls >>
sourceVars == << wimi_files, extensions, projects, workspace, workspaces_input,
                folder_identifiers_or_names, include_subfolders, j,
                available_documents >>

InitWith(rel) ==
    /\ all_documents \in DesiredLists
    /\ sink \in SinkStates
    /\ remove_duplicates \in BOOLEAN
    /\ verbose \in BOOLEAN
    /\ reliable = rel
    /\ existing_documents = <<>>
    /\ pc = "start"
    /\ i = 1
    /\ content_stream = Unbound
    /\ rep = FALSE
    /\ existing_document = NoDocument
    /\ nextId = Cardinality(sink) + 1
    /\ run = 1
    /\ log = <<>>
    /\ prev_log = <<>>
    /\ NamesIdle
    /\ KnowledgeIdle
    /\ SourceIdle

Init == InitWith(FALSE)

\* --------------------------------------------------------------- actions
inputs == << all_documents, remove_duplicates, verbose, reliable, nameVars,
            knowledgeVars, sourceVars >>

\* line 422: existing_documents = knowledge_client.get_existing_documents()
\* (a set of Document objects: any iteration order; raises on a failed page)
GetExisting ==
    /\ pc = "start"
    /\ \E ok \in Outcomes :
         /\ IF ok
            THEN /\ existing_documents' \in
                       Perms({Document(d.name, d.id, d.date) : d \in sink})
                 /\ pc' = "files"
            ELSE /\ existing_documents' = existing_documents
                 /\ pc' = "aborted"
         /\ log' = Append(log, Entry("list", 0, 0, <<>>, Empty, ok))
    /\ i' = 1
    /\ UNCHANGED << inputs, sink, content_stream, rep, existing_document, nextId,
                    run, prev_log >>

\* lines 434-451: the name of all_documents[i] is the name of an existing document
UpdateExisting ==
    /\ pc = "files"
    /\ i <= Len(all_documents)
    /\ InExisting(FileAt(all_documents, i).name, existing_documents)
    /\ LET file == FileAt(all_documents, i)
           document_name == file.name
           document_with_name == WithName(existing_documents, document_name)
           newest == MaxByDate(document_with_name)
           sorted_documents == NonCanonical(document_with_name)
       IN  \E fails \in SUBSET {d.id : d \in Range(sorted_documents)},
              okDownload \in Outcomes, okUpdate \in Outcomes,
              okDelete \in Outcomes, okUpload \in Outcomes :
             /\ reliable => fails = {}
             /\ LET m1 == IF remove_duplicates /\ Len(document_with_name) > 1
                          THEN DeleteEach(M, sorted_documents, i, fails)
                          ELSE M
                    stale == Stale(newest, file)
                    supported == UpdateExtension(file.name) \in SUPPORTED_EXTENSIONS_UNSTRUCTURED
                    m2 == [m1 EXCEPT !.log = Append(@, Entry("download", i, file.id,
                                                           document_name, Empty, okDownload))]
                    u == update_document(m2, document_name, newest.id,
                                         BytesIO(file.id), i, okUpdate, okDelete, okUpload)
                    raised == stale /\ supported /\ (~okDownload \/ u.raised)
                    m == IF stale /\ supported
                         THEN (IF okDownload THEN u.m ELSE m2)
                         ELSE m1
               IN  /\ log' = m.log
                   /\ sink' = m.sink
                   /\ nextId' = m.nextId
                   /\ content_stream' = IF stale /\ supported /\ okDownload
                                        THEN Consumed(BytesIO(file.id))
                                        ELSE content_stream
                   /\ existing_document' = newest
                   /\ pc' = IF raised THEN "aborted" ELSE "files"
                   /\ i' = IF raised THEN i ELSE i + 1
    /\ UNCHANGED << inputs, existing_documents, rep, run, prev_log >>

\* lines 453-471: the name of all_documents[i] is the name of no existing document
UploadNew ==
    /\ pc = "files"
    /\ i <= Len(all_documents)
    /\ ~InExisting(FileAt(all_documents, i).name, existing_documents)
    /\ LET file == FileAt(all_documents, i)
           document_name == file.name
       IN  \E okDownload \in Outcomes, okUpload \in Outcomes, okRetry \in Outcomes :
             LET m1 == [M EXCEPT !.log = Append(@, Entry("download", i, file.id,
                                                         document_name, Empty, okDownload))]
                 stream1 == IF okDownload THEN BytesIO(file.id) ELSE content_stream
                 supported == CreateExtension(file.name) \in SUPPORTED_EXTENSIONS_UNSTRUCTURED
                 tried == okDownload /\ supported
                 m2 == IF tried
                       THEN upload_document(m1, document_name, stream1, i, okUpload)
                       ELSE m1
                 stream2 == IF tried THEN Consumed(stream1) ELSE stream1
                 caught == ~okDownload \/ (tried /\ ~okUpload)
                 \* except Exception: the second upload, from whatever
                 \* content_stream is bound to
                 retried == Retried(caught, stream2)
                 m3 == IF retried
                       THEN upload_document(m2, document_name, stream2, i, okRetry)
                       ELSE m2
                 stream3 == IF retried THEN Consumed(stream2) ELSE stream2
                 rep3 == rep \/ (tried /\ okUpload) \/ (retried /\ okRetry)
                 raised == \/ caught /\ ~stream2.bound
                           \/ retried /\ ~okRetry
                           \/ verbose /\ ~rep3
             IN  /\ log' = m3.log
                 /\ sink' = m3.sink
                 /\ nextId' = m3.nextId
                 /\ content_stream' = stream3
                 /\ rep' = rep3
                 /\ pc' = IF raised THEN "aborted" ELSE "files"
                 /\ i' = IF raised THEN i ELSE i + 1
    /\ UNCHANGED << inputs, existing_documents, existing_document, run, prev_log >>

\* variant of DeleteOrphans: a delete the sink refuses ends the loop
RECURSIVE DeleteOrphans_StopAtFailure(_, _, _)
DeleteOrphans_StopAtFailure(m, docs, fails) ==
    IF docs = <<>> THEN m
    ELSE IF docs[1].name \notin {d.name : d \in Range(all_documents)}
         THEN IF docs[1].id \in fails
              THEN delete_document(m, docs[1].id, 0, FALSE)
              ELSE DeleteOrphans_StopAtFailure(delete_document(m, docs[1].id, 0, TRUE),
                                               Tail1(docs), fails)
         ELSE DeleteOrphans_StopAtFailure(m, Tail1(docs), fails)

\* lines 473-477: the loop over existing_documents, after the loop over
\* all_documents has ended; synchronize_with_dify then returns
RECURSIVE DeleteOrphans(_, _, _)
DeleteOrphans(m, docs, fails) ==
    IF docs = <<>> THEN m
    ELSE DeleteOrphans(IF IsOrphan(docs[1], all_documents)
                       THEN delete_document(m, docs[1].id, 0, docs[1].id \notin fails)
                       ELSE m,
                       Tail1(docs), fails)

OrphanPass ==
    /\ pc = "files"
    /\ i > Len(all_documents)
    /\ \E fails \in SUBSET {d.id : d \in Range(existing_documents)} :
         /\ reliable => fails = {}
         /\ \A d \in Range(existing_documents) :
               d.id \in fails => IsOrphan(d, all_documents)
         /\ LET m == DeleteOrphans(M, existing_documents, fails)
            IN  /\ log' = m.log
                /\ sink' = m.sink
    /\ pc' = "done"
    /\ UNCHANGED << inputs, existing_documents, i, content_stream, rep,
                    existing_document, nextId,
                    run, prev_log >>

Next ==
    \/ GetExisting
    \/ UpdateExisting
    \/ UploadNew
    \/ OrphanPass

Spec == Init /\ [][Next]_vars

\* -------------------------------------------------- the program run twice
\* the program is started again on the same source: synchronize_with_dify is
\* called with the same list and flags, its locals are new
Rerun ==
    /\ pc \in {"done", "aborted"}
    /\ run = 1
    /\ run' = 2
    /\ pc' = "start"
    /\ i' = 1
    /\ existing_documents' = <<>>
    /\ content_stream' = Unbound
    /\ rep' = FALSE
    /\ existing_document' = NoDocument
    /\ prev_log' = log
    /\ log' = <<>>
    /\ UNCHANGED << inputs, sink, nextId >>

InitTwice == InitWith(TRUE)

NextTwice ==
    \/ GetExisting
    \/ UpdateExisting
    \/ UploadNew
    \/ OrphanPass
    \/ Rerun

SpecTwice == InitTwice /\ [][NextTwice]_vars

\* ------------------------------------------------------ reading the log
Finished == pc \in {"done", "aborted"}
AllOk(l) == \A p \in 1..Len(l) : l[p].ok
Effects(l) == {p \in 1..Len(l) : l[p].op \in {"create", "update", "delete"}}
\* the calls made while all_documents[k] was processed (0: the orphan pass)
At(k, op) == {p \in 1..Len(log) : log[p].at = k /\ log[p].op = op}
\* all_documents[k] has been processed to the end of its iteration
Processed(k) == k \in 1..Len(all_documents) /\ k < i
DistinctNames(docs) == \A k, l \in 1..Len(docs) : docs[k].name = docs[l].name => k = l

\* ---------------------------------------------------------------- claims
\* C1: a second run on the same desired list and flag, after a first run in
\* which every source and sink call succeeded, issues no create, no update and
\* no delete.
C1_SecondRunIssuesNothing ==
    (run = 2 /\ Finished /\ AllOk(prev_log)) => Effects(log) = {}

\* C1, restricted to desired lists in which no two documents share a name
C1_DistinctNamesIdempotent ==
    (run = 2 /\ Finished /\ AllOk(prev_log) /\ DistinctNames(all_documents))
        => Effects(log) = {}

\* what the reconciliation rules are stated over
Canonicals(name) ==
    {e \in Range(existing_documents) :
        /\ e.name = name
        /\ \A o \in Range(existing_documents) : o.name = name => o.date <= e.date}
ExtractionCapable(name) == splitext(name) \in SUPPORTED_EXTENSIONS_UNSTRUCTURED

\* C2: a processed document whose name is in E, whose canonical entry is not
\* newer than it and whose extension is extraction-capable has its content
\* fetched and, when the fetch succeeds, an update of the canonical entry issued
\* with that content.
C2_UpdateWhenStale ==
    \A k \in 1..Len(all_documents) :
        LET d == all_documents[k]
        IN  (/\ Processed(k)
             /\ \E e \in Canonicals(d.name) : e.date <= d.date
             /\ ExtractionCapable(d.name))
            => /\ \E p \in At(k, "download") : log[p].id = d.id
               /\ (\A p \in At(k, "download") : log[p].ok)
                    => \E p \in At(k, "update") :
                          /\ log[p].content = Content(d.id)
                          /\ \E e \in Canonicals(d.name) : log[p].id = e.id

\* C3: once the pass over D is over, a delete has been issued for every entry
\* of E whose name no document of D has, the orphan pass has issued a delete
\* for no other entry, and when all those deletes succeeded no document of the
\* sink has a name that no document of D has.
C3_OrphanDeletion ==
    pc = "done" =>
        /\ \A e \in Range(existing_documents) :
              e.name \notin NamesOf(all_documents)
                  => Cardinality({p \in At(0, "delete") : log[p].id = e.id}) = 1
        /\ \A p \in 1..Len(log) :
              (log[p].at = 0 /\ log[p].op # "list") =>
                  /\ log[p].op = "delete"
                  /\ \E e \in Range(existing_documents) :
                        e.id = log[p].id /\ e.name \notin NamesOf(all_documents)
        /\ (\A p \in At(0, "delete") : log[p].ok)
              => \A s \in sink : s.name \in NamesOf(all_documents)

\* C3 witness: a finished run with an entry of E kept because D has its name
\* and an orphan deleted from the sink
C3_Witness ==
    /\ pc = "done"
    /\ \E e \in Range(existing_documents) : e.name \in NamesOf(all_documents)
    /\ \E p \in At(0, "delete") : log[p].ok /\ log[p].id \notin SinkIds(sink)

\* C4: in a run in which no call failed, every document of D whose name no
\* entry of E has and whose extension is extraction-capable has exactly one
\* create issued for it, with its name and the content of its sourceId, and no
\* update and no delete.
C4_CreateOnAbsence ==
    (Finished /\ AllOk(log)) =>
        \A k \in 1..Len(all_documents) :
            LET d == all_documents[k]
            IN  (d.name \notin NamesOf(existing_documents) /\ ExtractionCapable(d.name))
                => /\ Cardinality(At(k, "create")) = 1
                   /\ \A p \in At(k, "create") :
                         log[p].name = d.name /\ log[p].content = Content(d.id)
                   /\ At(k, "update") = {}
                   /\ At(k, "delete") = {}

\* C4, for the documents the run has processed
C4_CreateOnAbsenceProcessed ==
    AllOk(log) =>
        \A k \in 1..Len(all_documents) :
            LET d == all_documents[k]
            IN  (/\ Processed(k)
                 /\ d.name \notin NamesOf(existing_documents)
                 /\ ExtractionCapable(d.name))
                => /\ Cardinality(At(k, "create")) = 1
                   /\ \A p \in At(k, "create") :
                         log[p].name = d.name /\ log[p].content = Content(d.id)
                   /\ At(k, "update") = {}
                   /\ At(k, "delete") = {}

\* C5: with remove_duplicates set, processing a document whose name several
\* entries of E share issues one delete for each of them but one, the one left
\* out has the greatest createdAt of the name, and these deletes come before
\* any fetch, update or create of that iteration.
C5_DuplicateCollapse ==
    \A k \in 1..Len(all_documents) :
        LET d == all_documents[k]
            same == {e \in Range(existing_documents) : e.name = d.name}
        IN  (Processed(k) /\ remove_duplicates /\ Cardinality(same) > 1)
            => /\ \E keep \in Canonicals(d.name) :
                    \A e \in same :
                       Cardinality({p \in At(k, "delete") : log[p].id = e.id})
                           = IF e = keep THEN 0 ELSE 1
               /\ \A p \in At(k, "delete") : \E e \in same : log[p].id = e.id
               /\ \A p \in At(k, "delete") :
                     \A q \in At(k, "download") \cup At(k, "update") \cup At(k, "create") :
                        p < q

\* C5 witness: three entries of one name with three different dates, of which
\* the two older ones have been deleted from the sink and the newest is there
C5_Witness ==
    /\ remove_duplicates
    /\ Processed(1)
    /\ \E a, b, c \in Range(existing_documents) :
          /\ a.name = all_documents[1].name
          /\ b.name = a.name /\ c.name = a.name
          /\ a.date < c.date /\ c.date < b.date
          /\ \E p, q \in At(1, "delete") :
                log[p].id = a.id /\ log[q].id = c.id /\ log[p].ok /\ log[q].ok
          /\ b.id \in SinkIds(sink)
          /\ a.id \notin SinkIds(sink) /\ c.id \notin SinkIds(sink)

\* ----------------------------------------- update_document called directly
\* DifyKnowledgeClient.update_document applied to the arguments line 447 passes:
\* the name of a desired document, the id of an existing document of that name
\* and a new stream over the content fetched for the desired document
CallUpdateDocument ==
    /\ pc = "start"
    /\ \E file \in Range(all_documents), e \in sink,
          okUpdate \in BOOLEAN, okDelete \in BOOLEAN, okUpload \in BOOLEAN :
         /\ e.name = file.name
         /\ LET u == update_document(M, file.name, e.id, BytesIO(file.id), 1,
                                     okUpdate, okDelete, okUpload)
            IN  /\ log' = u.m.log
                /\ sink' = u.m.sink
                /\ nextId' = u.m.nextId
                /\ pc' = IF u.raised THEN "aborted" ELSE "done"
         /\ content_stream' = Consumed(BytesIO(file.id))
    /\ UNCHANGED << inputs, existing_documents, i, rep, existing_document, run,
                    prev_log >>

SpecUpdate == Init /\ [][CallUpdateDocument]_vars

\* C6: when the sink rejects the update of an entry, a delete of that entry
\* and then a create with the same name and the same content follow, and no
\* error leaves when that create succeeds.
C6_UpdateFallback ==
    (pc # "start" /\ Len(log) >= 1 /\ log[1].op = "update" /\ ~log[1].ok) =>
        /\ Len(log) = 3
        /\ log[2].op = "delete" /\ log[2].id = log[1].id
        /\ log[3].op = "create" /\ log[3].name = log[1].name
        /\ log[3].content = log[1].content
        /\ log[3].ok => pc = "done"

\* C6, without the content of the create: delete, then create of the same name
C6_FallbackOrder ==
    (pc # "start" /\ Len(log) >= 1 /\ log[1].op = "update" /\ ~log[1].ok) =>
        /\ Len(log) = 3
        /\ log[2].op = "delete" /\ log[2].id = log[1].id
        /\ log[3].op = "create" /\ log[3].name = log[1].name
        /\ log[3].ok => pc = "done"

\* the first and the last of the creates issued for all_documents[k]
FirstCreate(k) == CHOOSE p \in At(k, "create") : \A q \in At(k, "create") : p <= q
LastCreate(k) == CHOOSE p \in At(k, "create") : \A q \in At(k, "create") : q <= p

\* C7: when the create issued for a new document after its content was fetched
\* fails, exactly one more create is issued for it; when that one succeeds the
\* run goes on to the next document, when it fails the run ends with the error;
\* never is a third create issued.
C7_CreateRetry ==
    \A k \in 1..Len(all_documents) :
        /\ Cardinality(At(k, "create")) <= 2
        /\ (/\ all_documents[k].name \notin NamesOf(existing_documents)
            /\ \E p \in At(k, "download") : log[p].ok
            /\ At(k, "create") # {}
            /\ ~log[FirstCreate(k)].ok)
           => /\ Cardinality(At(k, "create")) = 2
              /\ log[LastCreate(k)].name = all_documents[k].name
              /\ log[LastCreate(k)].ok => Processed(k)
              /\ ~log[LastCreate(k)].ok => (pc = "aborted" /\ i = k)

\* C7 witness: the first create for document 1 failed, the second succeeded,
\* and the run went on to create document 2 and finished
C7_Witness ==
    /\ Len(all_documents) = 2
    /\ pc = "done"
    /\ Cardinality(At(1, "create")) = 2
    /\ ~log[FirstCreate(1)].ok
    /\ log[LastCreate(1)].ok
    /\ At(2, "create") # {}

\* C7 witness of the other outcome: both creates failed and the run is aborted
C7_WitnessSurfaced ==
    /\ pc = "aborted"
    /\ Cardinality(At(i, "create")) = 2
    /\ \E p \in At(i, "download") : log[p].ok
    /\ ~log[FirstCreate(i)].ok
    /\ ~log[LastCreate(i)].ok

\* C8: a processed or interrupted document whose name is in E, whose canonical
\* entry is not newer and whose extension is extraction-capable has its content
\* fetched; when that fetch fails, the canonical entry is deleted and the
\* document created again, and the run goes on.
C8_FetchFailureFallsBack ==
    \A k \in 1..Len(all_documents) :
        LET d == all_documents[k]
        IN  (/\ Processed(k) \/ (pc = "aborted" /\ i = k)
             /\ d.name \in NamesOf(existing_documents)
             /\ \E e \in Canonicals(d.name) : e.date <= d.date
             /\ ExtractionCapable(d.name))
            => /\ At(k, "download") # {}
               /\ (\E p \in At(k, "download") : ~log[p].ok)
                    => /\ \E p \in At(k, "delete"), q \in At(k, "create") :
                            /\ p < q
                            /\ log[q].name = d.name
                            /\ \E e \in Canonicals(d.name) : log[p].id = e.id
                       /\ Processed(k)

\* C9: the calls are made document by document in the order of D, the k-th
\* iteration working on the k-th document; the deletes of the orphan pass come
\* after every other call and only when the last document has been processed.
OrphanDeletes == At(0, "delete")
C9_PassOrdering ==
    /\ \A p \in 1..Len(log) :
          log[p].at >= 1 =>
             /\ log[p].at <= Len(all_documents)
             /\ log[p].op = "download" => log[p].id = all_documents[log[p].at].id
             /\ log[p].op \in {"download", "create", "update"}
                   => log[p].name = all_documents[log[p].at].name
             /\ log[p].op = "delete"
                   => \E e \in Range(existing_documents) :
                         e.id = log[p].id /\ e.name = all_documents[log[p].at].name
    /\ \A p, q \in 1..Len(log) :
          (p < q /\ log[p].at >= 1 /\ log[q].at >= 1) => log[p].at <= log[q].at
    /\ \A p \in OrphanDeletes, q \in 1..Len(log) : log[q].at >= 1 => q < p
    /\ OrphanDeletes # {} => (pc = "done" /\ i > Len(all_documents))

\* C9 witness: creates for two documents in the order of D, then an orphan delete
C9_Witness ==
    /\ Len(all_documents) = 2
    /\ all_documents[1].name # all_documents[2].name
    /\ \E p \in At(1, "create"), q \in At(2, "create"), r \in OrphanDeletes :
          p < q /\ q < r

\* C10: a processed document whose name is in E and whose canonical entry is
\* newer than it has no fetch, no update and no create issued for it, and an
\* entry of that name with the greatest createdAt is in the sink as it was.
C10_NoUpdateWhenNewer ==
    \A k \in 1..Len(all_documents) :
        LET d == all_documents[k]
        IN  (/\ Processed(k)
             /\ d.name \in NamesOf(existing_documents)
             /\ \E e \in Canonicals(d.name) : e.date > d.date)
            => /\ At(k, "download") = {}
               /\ At(k, "update") = {}
               /\ At(k, "create") = {}
               /\ \E e \in Canonicals(d.name) :
                     [name |-> e.name, id |-> e.id, date |-> e.date, content |-> Old]
                         \in sink

\* C10 witness: a finished run with a document whose only entry in E is newer
C10_Witness ==
    /\ pc = "done"
    /\ \E k \in 1..Len(all_documents) :
          /\ Cardinality(Canonicals(all_documents[k].name)) = 1
          /\ \E e \in Canonicals(all_documents[k].name) :
                e.date > all_documents[k].date /\ e.id \in SinkIds(sink)

\* the run has come to all_documents[k]: processed it or ended in it
Reached(k) ==
    \/ Processed(k)
    \/ pc = "aborted" /\ i = k /\ Len(log) >= 1 /\ log[Len(log)].at = k

\* C11: a document of D absent from E whose extension is not
\* extraction-capable, and whose content was fetched, gets no create and does
\* not end the run, whatever verbose and its position in D.
C11_UnsupportedIsSkipped ==
    \A k \in 1..Len(all_documents) :
        LET d == all_documents[k]
        IN  (/\ Reached(k)
             /\ d.name \notin NamesOf(existing_documents)
             /\ ~ExtractionCapable(d.name)
             /\ \A p \in At(k, "download") : log[p].ok)
            => (At(k, "create") = {} /\ Processed(k))

\* C11, with verbose off
C11_SkippedWhenQuiet ==
    \A k \in 1..Len(all_documents) :
        LET d == all_documents[k]
        IN  (/\ ~verbose
             /\ Reached(k)
             /\ d.name \notin NamesOf(existing_documents)
             /\ ~ExtractionCapable(d.name)
             /\ \A p \in At(k, "download") : log[p].ok)
            => (At(k, "create") = {} /\ Processed(k))

\* C12: a delete the sink refuses does not end the run: refused while
\* all_documents[k] is processed, the iteration is completed; refused in the
\* orphan pass, the pass still issues a delete for every orphan of E and the
\* function returns.
C12_DeleteFailureNotFatal ==
    \A p \in 1..Len(log) :
        (log[p].op = "delete" /\ ~log[p].ok) =>
            /\ log[p].at >= 1 => Processed(log[p].at)
            /\ log[p].at = 0 =>
                  /\ pc = "done"
                  /\ \A e \in Range(existing_documents) :
                        e.name \notin NamesOf(all_documents)
                            => \E q \in At(0, "delete") : log[q].id = e.id

\* C12 witness: a finished run in which the first of two orphan deletes was
\* refused and the second, issued after it, succeeded
C12_Witness ==
    /\ pc = "done"
    /\ \E p, q \in At(0, "delete") : p < q /\ ~log[p].ok /\ log[q].ok

\* C12 witness for the duplicate cleanup: a refused delete while document 1
\* was processed, and document 2 processed after it
C12_WitnessCleanup ==
    /\ Processed(2)
    /\ \E p \in At(1, "delete") : ~log[p].ok

\* C18: after a finished run with remove_duplicates set in which every call
\* succeeded, no two documents of the sink have the same name.
C18_NoSharedNames ==
    (pc = "done" /\ remove_duplicates /\ AllOk(log)) =>
        \A s, t \in sink : s.name = t.name => s = t

\* C18, for desired lists in which no two documents share a name
C18_NoSharedNamesDistinctD ==
    (pc = "done" /\ remove_duplicates /\ AllOk(log) /\ DistinctNames(all_documents)) =>
        \A s, t \in sink : s.name = t.name => s = t

\* C19: every create issued while all_documents[k] is processed carries the
\* content of all_documents[k].
C19_CreateCarriesOwnContent ==
    \A p \in 1..Len(log) :
        (log[p].op = "create" /\ log[p].at >= 1)
            => log[p].content = Content(all_documents[log[p].at].id)

\* C19, second half alone: no create carries the content of another document
C19_NoForeignContent ==
    \A p \in 1..Len(log) :
        (log[p].op = "create" /\ log[p].at >= 1)
            => log[p].content \in {Empty, Content(all_documents[log[p].at].id)}

\* C20: no update and no delete is issued for a sink id for which this run
\* has issued a delete before.
C20_NoCallOnDeletedId ==
    \A p, q \in 1..Len(log) :
        (p < q /\ log[p].op = "delete" /\ log[q].op \in {"update", "delete"})
            => log[q].id # log[p].id

\* C20, for desired lists in which no two documents share a name
C20_NoCallOnDeletedIdDistinctD ==
    DistinctNames(all_documents) =>
        \A p, q \in 1..Len(log) :
            (p < q /\ log[p].op = "delete" /\ log[q].op \in {"update", "delete"})
                => log[q].id # log[p].id

\* ------------------------------------------------- the name normalization
\* longest source filename drawn, and number of normalizations applied to it
MaxLen == 5
MaxCalls == 2

\* the characters source filenames are made of
Chars == {"a", "b", "."}
Filenames == UNION { [1..n -> Chars] : n \in 0..MaxLen }

\* filename.split('.')
RECURSIVE split(_)
split(name) ==
    LET dots == {k \in 1..Len(name) : name[k] = "."}
        first == CHOOSE k \in dots : \A l \in dots : k <= l
    IN  IF dots = {} THEN << name >>
        ELSE << SubSeq(name, 1, first - 1) >>
                 \o split(SubSeq(name, first + 1, Len(name)))

\* '.'.join(parts)
RECURSIVE join(_)
join(parts) ==
    IF Len(parts) = 0 THEN <<>>
    ELSE IF Len(parts) = 1 THEN parts[1]
    ELSE parts[1] \o <<".">> \o join(Tail1(parts))

\* lines 393-394: while parts[-1] == parts[-2]: parts = parts[:-1]
\* (parts[-2] of a list of one element raises IndexError)
RECURSIVE DropRepeatedLast(_)
DropRepeatedLast(parts) ==
    IF Len(parts) < 2 THEN [raised |-> TRUE, parts |-> parts]
    ELSE IF parts[Len(parts)] = parts[Len(parts) - 1]
         THEN DropRepeatedLast(SubSeq(parts, 1, Len(parts) - 1))
         ELSE [raised |-> FALSE, parts |-> parts]

\* remove_multiple_extensions(filename): the name returned, or raised
remove_multiple_extensions(filename) ==
    LET parts == split(filename)
        dropped == DropRepeatedLast(parts)
    IN  IF Len(parts) > 2
        THEN IF dropped.raised
             THEN [raised |-> TRUE, name |-> filename]
             ELSE [raised |-> FALSE, name |-> join(dropped.parts)]
        ELSE [raised |-> FALSE, name |-> filename]

\* the variables of synchronize_with_dify, when it is not what is run
SyncIdle ==
    /\ all_documents = <<>>
    /\ sink = {}
    /\ remove_duplicates = FALSE
    /\ verbose = FALSE
    /\ reliable = TRUE
    /\ existing_documents = <<>>
    /\ i = 1
    /\ content_stream = Unbound
    /\ rep = FALSE
    /\ existing_document = NoDocument
    /\ nextId = 1
    /\ run = 1
    /\ log = <<>>
    /\ prev_log = <<>>

InitNames ==
    /\ SyncIdle
    /\ pc = "name"
    /\ \E filename \in Filenames : names = << filename >>
    /\ KnowledgeIdle
    /\ SourceIdle

\* remove_multiple_extensions applied to the last name obtained
Normalize ==
    /\ pc = "name"
    /\ Len(names) <= MaxCalls
    /\ LET r == remove_multiple_extensions(names[Len(names)])
       IN  IF r.raised
           THEN pc' = "aborted" /\ names' = names
           ELSE pc' = "name" /\ names' = Append(names, r.name)
    /\ UNCHANGED << all_documents, sink, remove_duplicates, verbose, reliable,
                    existing_documents, i, content_stream, rep,
                    existing_document, nextId, run,
                    log, prev_log, knowledgeVars, sourceVars >>

SpecNames == InitNames /\ [][Normalize]_vars

\* the filename in which the run of identical extensions at its end is one
\* extension: the part before the first dot is the stem, the others extensions
Collapsed(filename) ==
    LET parts == split(filename)
        n == Len(parts)
        run_start == CHOOSE m \in 2..n :
                        /\ \A k \in m..n : parts[k] = parts[n]
                        /\ \A l \in 2..(m - 1) : \E k \in l..n : parts[k] # parts[n]
    IN  IF n < 2 THEN filename ELSE join(SubSeq(parts, 1, run_start))

\* C14: remove_multiple_extensions returns without error, for every source
\* filename, the filename with the run of identical extensions at its end
\* collapsed to one (a filename without such a run unchanged), and applied to
\* its result it returns the result.
C14_Normalization ==
    /\ pc # "aborted"
    /\ \A k \in 2..Len(names) : names[k] = Collapsed(names[1])

\* C14, for the filenames on which remove_multiple_extensions returns
C14_NormalizationWhenReturned ==
    \A k \in 2..Len(names) : names[k] = Collapsed(names[1])

\* a filename with a stem that differs from its two identical extensions,
\* normalized twice
C14_WitnessReturned ==
    /\ Len(names) = 3
    /\ names[1] = <<"b", ".", "a", ".", "a">>
    /\ names[3] = <<"b", ".", "a">>

\* ------------------------------------------- the knowledge-base resolution
\* line 67: params={"limit": 100}
PageLimit == 100
\* knowledge bases the sink may hold beyond one page, and calls made
MaxBeyondPage == 1
MaxResolves == 2

\* the name asked for (KNOWLEDGE_NAME) and the name of every other knowledge base
KnowledgeName == "kb"
OtherName == "other"

\* a knowledge base of the sink; created: by a post of this program
Dataset(name, id, created) == [name |-> name, id |-> id, created |-> created]

\* the first page of GET /datasets
FirstPage(ds) == SubSeq(ds, 1, IF Len(ds) < PageLimit THEN Len(ds) ELSE PageLimit)

\* DifyKnowledgeClient.get_or_create_knowledge(name): okGet, the list request
\* is answered with status 200; okPost, the creation with 200 or 201; front,
\* the sink lists a new knowledge base before the others. id 0: nothing returned
get_or_create_knowledge(ds, name, okGet, okPost, front) ==
    LET page == FirstPage(ds)
        hits == {k \in 1..Len(page) : page[k].name = name}
        found == okGet /\ hits # {}
        first == CHOOSE k \in hits : \A l \in hits : k <= l
        new == Dataset(name, Len(ds) + 1, TRUE)
    IN  IF found
        THEN [datasets |-> ds, id |-> page[first].id, posted |-> FALSE, raised |-> FALSE]
        ELSE IF okPost
             THEN [datasets |-> IF front THEN << new >> \o ds ELSE Append(ds, new),
                   id |-> new.id, posted |-> TRUE, raised |-> FALSE]
             ELSE [datasets |-> ds, id |-> 0, posted |-> TRUE, raised |-> TRUE]

\* the sink when the program starts: n knowledge bases, at most one of them
\* (the one at position at) with the name asked for
DatasetLists ==
    { [k \in 1..n |-> Dataset(IF k = at THEN KnowledgeName ELSE OtherName, k, FALSE)]
        : n \in 0..(PageLimit + MaxBeyondPage), at \in 0..(PageLimit + MaxBeyondPage) }

InitKnowledge ==
    /\ SyncIdle
    /\ pc = "knowledge"
    /\ NamesIdle
    /\ SourceIdle
    /\ datasets \in DatasetLists
    /\ knowledge_calls = <<>>

\* line 63: self.KNOWLEDGE_ID = self.get_or_create_knowledge(self.KNOWLEDGE_NAME)
GetOrCreateKnowledge ==
    /\ pc = "knowledge"
    /\ Len(knowledge_calls) < MaxResolves
    /\ \E okGet \in BOOLEAN, okPost \in BOOLEAN, front \in BOOLEAN :
         LET r == get_or_create_knowledge(datasets, KnowledgeName, okGet, okPost, front)
         IN  /\ datasets' = r.datasets
             /\ knowledge_calls' =
                   Append(knowledge_calls,
                          [before |-> {d.id : d \in {e \in Range(datasets) :
                                                        e.name = KnowledgeName}},
                           listed |-> okGet, id |-> r.id, posted |-> r.posted,
                           raised |-> r.raised])
    /\ UNCHANGED << all_documents, sink, remove_duplicates, verbose, reliable,
                    existing_documents, pc, i, content_stream, rep,
                    existing_document, nextId, run,
                    log, prev_log, nameVars, sourceVars >>

SpecKnowledge == InitKnowledge /\ [][GetOrCreateKnowledge]_vars

\* C16: a call of get_or_create_knowledge made while the sink holds a
\* knowledge base of that name returns the identifier of one of them and
\* creates nothing; a call made while it holds none creates one; and however
\* many calls are made, at most one knowledge base of the name is created by
\* the program.
C16_ResolutionIdempotent ==
    /\ \A k \in 1..Len(knowledge_calls) :
          LET c == knowledge_calls[k]
          IN  /\ c.before # {} => (c.id \in c.before /\ ~c.posted)
              /\ c.before = {} => c.posted
    /\ Cardinality({d \in Range(datasets) : d.name = KnowledgeName /\ d.created}) <= 1

\* C16, for a sink whose knowledge bases fit in one page and answer every list
\* request with status 200 (a failed list request falls through to the post)
C16_IdempotentWithinOnePage ==
    (/\ Len(datasets) <= PageLimit
     /\ \A k \in 1..Len(knowledge_calls) : knowledge_calls[k].listed)
    => C16_ResolutionIdempotent

\* --------------------------------------------------------- the source walk
\* entries a folder of the source holds at most
MaxFiles == 2

SUPPORTED_EXTENSIONS_DIFY ==
    { <<".", "t", "x", "t">>, <<".", "m", "d">>, <<".", "p", "d", "f">>,
      <<".", "h", "t", "m", "l">>, <<".", "h", "t", "m">>,
      <<".", "x", "l", "s", "x">>, <<".", "x", "l", "s">>,
      <<".", "c", "s", "v">> }

\* auth_response['body']['data']['projects']
Projects ==
    << [name |-> "General", project_id |-> 1], [name |-> "Other", project_id |-> 2] >>
ProjectIds == {Projects[k].project_id : k \in 1..Len(Projects)}

\* the folders of a project: 0 stands for the root (dir_id left out of the
\* request), and the (name, dir_id) pairs are in the order the source lists them
FolderIds == 0..3
WimiDirs(folder_id) ==
    CASE folder_id = 0 -> << << "docs", 2 >>, << "more", 1 >> >>
      [] folder_id = 2 -> << << "sub", 3 >> >>
      [] OTHER -> <<>>

\* the kinds of entries of the source: name and 'extension' field
KindPdf == [name |-> <<"a", ".", "p", "d", "f", ".", "p", "d", "f">>,
            extension |-> <<"p", "d", "f">>]
KindDocx == [name |-> <<"b", ".", "d", "o", "c", "x">>,
             extension |-> <<"d", "o", "c", "x">>]
KindZip == [name |-> NameC, extension |-> <<"z", "i", "p">>]
Kinds == {KindPdf, KindDocx, KindZip}

\* an element of response.json()["body"]["data"]["files"]
SourceEntry(kind, project_id, folder_id, k) ==
    [name |-> kind.name, extension |-> kind.extension,
     file_id |-> project_id * 100 + folder_id * 10 + k, date |-> ModTime]

\* variant of IsSupported: no entry is left out
IsSupported_Any(d, exts) == TRUE

\* line 299: '.' + d["extension"] in self.extensions
IsSupported(d, exts) == (<<".">> \o d.extension) \in exts

\* WimiFileSource.list_files(project_id, folder_id): the documents, or raised
\* (a project the source does not know has no "files" in the response; an
\* exception of remove_multiple_extensions leaves list_files)
list_files(project_id, folder_id) ==
    IF project_id \notin ProjectIds THEN [raised |-> TRUE, files |-> <<>>]
    ELSE LET files_dicts == wimi_files[project_id][folder_id]
             kept == SelectSeq(files_dicts, LAMBDA d : IsSupported(d, extensions))
         IN  [raised |-> \E k \in 1..Len(kept) :
                            remove_multiple_extensions(kept[k].name).raised,
              files |-> [k \in 1..Len(kept) |->
                            Document(remove_multiple_extensions(kept[k].name).name,
                                     kept[k].file_id, kept[k].date)]]

\* WimiFileSource.list_folders(project_id, folder_id)
list_folders(project_id, folder_id) ==
    IF project_id \notin ProjectIds THEN [raised |-> TRUE, dirs |-> <<>>]
    ELSE [raised |-> FALSE, dirs |-> WimiDirs(folder_id)]

\* WimiFileSource.list_files_recursive(wimi_project, folder_id), and its loop
\* over the subfolders
RECURSIVE list_files_recursive(_, _)
RECURSIVE ListSubfolders(_, _)
list_files_recursive(wimi_project, folder_id) ==
    LET files == list_files(wimi_project, folder_id)
        folders == list_folders(wimi_project, folder_id)
        below == ListSubfolders(wimi_project, folders.dirs)
    IN  [raised |-> files.raised \/ folders.raised \/ below.raised,
         files |-> files.files \o below.files]

ListSubfolders(wimi_project, folders) ==
    IF folders = <<>> THEN [raised |-> FALSE, files |-> <<>>]
    ELSE LET head == list_files_recursive(wimi_project, folders[1][2])
             rest == ListSubfolders(wimi_project, Tail1(folders))
         IN  [raised |-> head.raised \/ rest.raised, files |-> head.files \o rest.files]

\* retrieve_files_from_folder(file_source, wimi_project,
\* folder_identifier_or_name, include_subfolders): the documents, or raised
retrieve_files_from_folder(wimi_project, folder_identifier_or_name, subfolders) ==
    LET folders == list_folders(wimi_project, 0)
        matches == {k \in 1..Len(folders.dirs) :
                       folders.dirs[k][1] = folder_identifier_or_name}
        first == CHOOSE k \in matches : \A l \in matches : k <= l
        folder_identifier == IF folder_identifier_or_name = "root" THEN 0
                             ELSE folders.dirs[first][2]
    IN  IF folder_identifier_or_name # "root" /\ (folders.raised \/ matches = {})
        THEN [raised |-> TRUE, files |-> <<>>]
        ELSE IF subfolders
             THEN list_files_recursive(wimi_project, folder_identifier)
             ELSE list_files(wimi_project, folder_identifier)

\* the entries a folder holds: the two folders listed first up to MaxFiles, the
\* others one less
Capacity(folder_id) == IF folder_id \in {0, 2} THEN MaxFiles ELSE MaxFiles - 1
KindLists(n) == UNION { [1..m -> Kinds] : m \in 0..n }
\* the sources with entries in the first project only
OneProjectSources ==
    { [p \in ProjectIds |->
         [f \in FolderIds |->
            IF p = 1
            THEN [k \in 1..Len(c[f]) |-> SourceEntry(c[f][k], p, f, k)]
            ELSE <<>>]]
      : c \in { d \in [FolderIds -> KindLists(MaxFiles)] :
                   \A f \in FolderIds : Len(d[f]) <= Capacity(f) } }

\* the folder specifiers: the root, two folders of the root, a folder that is
\* no folder of the root
FolderSpecifiers == {"root", "docs", "more", "sub"}

InitList ==
    /\ SyncIdle
    /\ NamesIdle
    /\ KnowledgeIdle
    /\ pc = "pairs"
    /\ wimi_files \in OneProjectSources
    /\ extensions \in {SUPPORTED_EXTENSIONS_DIFY, SUPPORTED_EXTENSIONS_UNSTRUCTURED}
    /\ projects = Projects
    /\ workspace = << "General" >>
    /\ workspaces_input = << "General" >>
    /\ \E f \in FolderSpecifiers : folder_identifiers_or_names = << f >>
    /\ include_subfolders \in BOOLEAN
    /\ j = 1
    /\ available_documents = <<>>

\* line 494: documents = retrieve_files_from_folder(...), in the first project
RetrieveFiles ==
    /\ pc = "pairs"
    /\ LET r == retrieve_files_from_folder(1, folder_identifiers_or_names[j],
                                           include_subfolders)
       IN  /\ pc' = IF r.raised THEN "aborted" ELSE "listed"
           /\ available_documents' = r.files
    /\ UNCHANGED << all_documents, sink, remove_duplicates, verbose, reliable,
                    existing_documents, i, content_stream, rep,
                    existing_document, nextId, run,
                    log, prev_log, nameVars, knowledgeVars, wimi_files,
                    extensions, projects, workspace, workspaces_input,
                    folder_identifiers_or_names, include_subfolders, j >>

SpecList == InitList /\ [][RetrieveFiles]_vars

\* where a folder is in the tree: the positions, in the listings of the
\* folders above it, that lead to it from the root
RECURSIVE PathTo(_)
PathTo(folder_id) ==
    IF folder_id = 0 THEN <<>>
    ELSE LET above == CHOOSE g \in FolderIds :
                         \E k \in 1..Len(WimiDirs(g)) : WimiDirs(g)[k][2] = folder_id
             at == CHOOSE k \in 1..Len(WimiDirs(above)) :
                      WimiDirs(above)[k][2] = folder_id
         IN  Append(PathTo(above), at)
IsPrefix(s, t) == Len(s) <= Len(t) /\ SubSeq(t, 1, Len(s)) = s
\* s comes before t in a depth-first walk that handles a folder before the
\* folders below it
WalkedBefore(s, t) ==
    \/ IsPrefix(s, t) /\ s # t
    \/ \E k \in 1..Len(s) :
          /\ k <= Len(t)
          /\ SubSeq(s, 1, k - 1) = SubSeq(t, 1, k - 1)
          /\ s[k] < t[k]
\* the folder a specifier names
Resolved(specifier) ==
    IF specifier = "root" THEN 0
    ELSE CHOOSE g \in FolderIds :
            \E k \in 1..Len(WimiDirs(0)) : WimiDirs(0)[k] = << specifier, g >>
\* the places <<folder, position>> of the entries the list has to hold
Wanted ==
    LET top == Resolved(folder_identifiers_or_names[1])
        scope == IF include_subfolders
                 THEN {g \in FolderIds : IsPrefix(PathTo(top), PathTo(g))}
                 ELSE {top}
    IN  {pl \in scope \X (1..MaxFiles) :
            /\ pl[2] <= Len(wimi_files[1][pl[1]])
            /\ (<<".">> \o wimi_files[1][pl[1]][pl[2]].extension) \in extensions}
PlaceOf(doc) ==
    CHOOSE pl \in FolderIds \X (1..MaxFiles) :
        /\ pl[2] <= Len(wimi_files[1][pl[1]])
        /\ wimi_files[1][pl[1]][pl[2]].file_id = doc.id

\* C17: the list returned for a resolved folder holds exactly the entries with
\* an extension of the active set, of the whole subtree when subfolders are
\* included and of the folder alone otherwise; the entries of a folder come in
\* listing order and before those of its subfolders, the subfolders depth-first
\* in listing order; no entry with another extension is in the list.
C17_DesiredSetConstruction ==
    pc = "listed" =>
        /\ Len(available_documents) = Cardinality(Wanted)
        /\ \A pl \in Wanted : \E k \in 1..Len(available_documents) :
              available_documents[k].id = wimi_files[1][pl[1]][pl[2]].file_id
        /\ \A k \in 1..Len(available_documents) :
              PlaceOf(available_documents[k]) \in Wanted
        /\ \A k, l \in 1..Len(available_documents) :
              k < l =>
                 LET a == PlaceOf(available_documents[k])
                     b == PlaceOf(available_documents[l])
                 IN  IF a[1] = b[1] THEN a[2] < b[2]
                     ELSE WalkedBefore(PathTo(a[1]), PathTo(b[1]))

\* C17 witness: the walk from the root returned documents of the root, of
\* docs, of sub and of more, in that order, and left an entry out
C17_Witness ==
    /\ pc = "listed"
    /\ include_subfolders
    /\ folder_identifiers_or_names = << "root" >>
    /\ \E a, b, c, d \in 1..Len(available_documents) :
          /\ a < b /\ b < c /\ c < d
          /\ PlaceOf(available_documents[a])[1] = 0
          /\ PlaceOf(available_documents[b])[1] = 2
          /\ PlaceOf(available_documents[c])[1] = 3
          /\ PlaceOf(available_documents[d])[1] = 1
    /\ \E f \in FolderIds : \E k \in 1..Len(wimi_files[1][f]) :
          \A l \in 1..Len(available_documents) :
             available_documents[l].id # wimi_files[1][f][k].file_id

\* C17 witness without traversal: entries of folders below are not returned
C17_WitnessFlat ==
    /\ pc = "listed"
    /\ ~include_subfolders
    /\ Len(available_documents) = 2
    /\ \E k \in 1..Len(wimi_files[1][3]) :
          (<<".">> \o wimi_files[1][3][k].extension) \in extensions

\* ------------------------------------------------------- the whole program
\* specifiers given in --folders and in --workspace at most
MaxPairs == 3

\* the workspace specifiers: the name of the first project, the identifier of
\* the second, a name and an identifier no project has
WorkspaceSpecifiers == {"General", "2", "Nowhere", "9"}
\* str.isnumeric() and int()
isnumeric(specifier) == specifier \in {"2", "9"}
int(specifier) == IF specifier = "2" THEN 2 ELSE 9
\* the folder specifiers: the root, a folder of the root, no folder of the root
RequestedFolders == {"root", "docs", "sub"}

SpecifierLists(S) == UNION { [1..n -> S] : n \in 1..MaxPairs }

\* WimiFileSource.get_project_id(project_name_or_id): the id, or raised
get_project_id(project_name_or_id) ==
    LET hits == {k \in 1..Len(projects) : projects[k].name = project_name_or_id}
        first == CHOOSE k \in hits : \A l \in hits : k <= l
    IN  IF isnumeric(project_name_or_id)
        THEN [raised |-> FALSE, project_id |-> int(project_name_or_id)]
        ELSE IF hits # {}
             THEN [raised |-> FALSE, project_id |-> projects[first].project_id]
             ELSE [raised |-> TRUE, project_id |-> 0]

\* a source with one entry in every folder of every project
MainSource ==
    [p \in ProjectIds |->
       [f \in FolderIds |->
          << SourceEntry(IF f = 2 THEN KindDocx ELSE KindPdf, p, f, 1) >>]]

InitMain ==
    /\ all_documents = <<>>
    /\ sink = {[name |-> NameA, id |-> 1, date |-> 0, content |-> Old]}
    /\ remove_duplicates = TRUE
    /\ verbose = FALSE
    /\ reliable = TRUE
    /\ existing_documents = <<>>
    /\ pc = "auth"
    /\ i = 1
    /\ content_stream = Unbound
    /\ rep = FALSE
    /\ existing_document = NoDocument
    /\ nextId = 2
    /\ run = 1
    /\ log = <<>>
    /\ prev_log = <<>>
    /\ NamesIdle
    /\ datasets \in {<<>>, << Dataset(KnowledgeName, 1, FALSE) >>}
    /\ knowledge_calls = <<>>
    /\ wimi_files = MainSource
    /\ extensions = SUPPORTED_EXTENSIONS_UNSTRUCTURED
    /\ projects = <<>>
    /\ workspace \in SpecifierLists(WorkspaceSpecifiers)
    /\ workspaces_input = <<>>
    /\ folder_identifiers_or_names \in SpecifierLists(RequestedFolders)
    /\ include_subfolders \in BOOLEAN
    /\ j = 1
    /\ available_documents = <<>>

\* lines 480-486: authenticate() (an assertion or a missing key ends the
\* program), then the two specifier lists
Authenticate ==
    /\ pc = "auth"
    /\ \E ok \in BOOLEAN :
         IF ok
         THEN /\ projects' = Projects
              /\ workspaces_input' =
                    IF Len(workspace) = 1
                    THEN [k \in 1..Len(folder_identifiers_or_names) |-> workspace[1]]
                    ELSE workspace
              /\ pc' = "pairs"
         ELSE /\ pc' = "aborted"
              /\ UNCHANGED << projects, workspaces_input >>
    /\ UNCHANGED << all_documents, sink, remove_duplicates, verbose, reliable,
                    existing_documents, i, content_stream, rep,
                    existing_document, nextId, run,
                    log, prev_log, nameVars, knowledgeVars, wimi_files,
                    extensions, workspace, folder_identifiers_or_names,
                    include_subfolders, j, available_documents >>

\* zip(workspaces_input, folder_identifiers_or_names) ends with the shorter list
ZipLen(s, t) == IF Len(s) < Len(t) THEN Len(s) ELSE Len(t)

\* lines 490-496: one iteration of the loop over the pairs
ResolvePair ==
    /\ pc = "pairs"
    /\ j <= ZipLen(workspaces_input, folder_identifiers_or_names)
    /\ LET wimi_project == get_project_id(workspaces_input[j])
           documents == retrieve_files_from_folder(wimi_project.project_id,
                                                   folder_identifiers_or_names[j],
                                                   include_subfolders)
       IN  IF wimi_project.raised \/ documents.raised
           THEN /\ pc' = "aborted"
                /\ UNCHANGED << all_documents, j, available_documents >>
           ELSE /\ pc' = "pairs"
                /\ available_documents' = documents.files
                /\ all_documents' = all_documents \o documents.files
                /\ j' = j + 1
    /\ UNCHANGED << sink, remove_duplicates, verbose, reliable,
                    existing_documents, i, content_stream, rep,
                    existing_document, nextId, run,
                    log, prev_log, nameVars, knowledgeVars, wimi_files,
                    extensions, projects, workspace, workspaces_input,
                    folder_identifiers_or_names, include_subfolders >>

\* line 498: knowledge_client = DifyKnowledgeClient(...), after the loop
CreateClient ==
    /\ pc = "pairs"
    /\ j > ZipLen(workspaces_input, folder_identifiers_or_names)
    /\ \E okGet \in Outcomes, okPost \in Outcomes, front \in BOOLEAN :
         LET r == get_or_create_knowledge(datasets, KnowledgeName, okGet, okPost, front)
         IN  /\ datasets' = r.datasets
             /\ knowledge_calls' =
                   Append(knowledge_calls,
                          [before |-> {d.id : d \in {e \in Range(datasets) :
                                                        e.name = KnowledgeName}},
                           listed |-> okGet, id |-> r.id, posted |-> r.posted,
                           raised |-> r.raised])
             /\ pc' = IF r.raised THEN "aborted" ELSE "start"
    /\ UNCHANGED << all_documents, sink, remove_duplicates, verbose, reliable,
                    existing_documents, i, content_stream, rep,
                    existing_document, nextId, run,
                    log, prev_log, nameVars, sourceVars >>

NextMain ==
    \/ Authenticate
    \/ ResolvePair
    \/ CreateClient
    \/ GetExisting
    \/ UpdateExisting
    \/ UploadNew
    \/ OrphanPass

SpecMain == InitMain /\ [][NextMain]_vars

\* the loop over the pairs has ended without an error: the client is built
PairsDone == knowledge_calls # <<>>

\* the documents of the k-th requested folder, in the workspace it goes with
RequestedDocuments(k) ==
    LET w == IF Len(workspace) = 1 THEN workspace[1] ELSE workspace[k]
    IN  retrieve_files_from_folder(get_project_id(w).project_id,
                                   folder_identifiers_or_names[k],
                                   include_subfolders).files
RECURSIVE ConcatRequested(_)
ConcatRequested(n) ==
    IF n = 0 THEN <<>> ELSE ConcatRequested(n - 1) \o RequestedDocuments(n)

\* C15: every requested folder is resolved, against the one workspace given or
\* against the workspace of its position, and D is the concatenation, in
\* request order, of the document lists of all the requested folders.
C15_EveryFolderInD ==
    PairsDone =>
        /\ Len(workspace) = 1 \/ Len(workspace) >= Len(folder_identifiers_or_names)
        /\ all_documents = ConcatRequested(Len(folder_identifiers_or_names))

\* C15, when one workspace or as many workspaces as folders are given
C15_PairingWhenLengthsAgree ==
    (/\ PairsDone
     /\ Len(workspace) \in {1, Len(folder_identifiers_or_names)})
    => all_documents = ConcatRequested(Len(folder_identifiers_or_names))

\* three folders of one workspace, and two folders of two workspaces, in D
C15_WitnessBroadcast ==
    /\ PairsDone
    /\ Len(workspace) = 1
    /\ Len(folder_identifiers_or_names) = 3
    /\ Len(all_documents) >= 3
C15_WitnessPaired ==
    /\ PairsDone
    /\ Len(workspace) = 2
    /\ Len(folder_identifiers_or_names) = 2
    /\ \E k, l \in 1..Len(all_documents) :
          k < l /\ all_documents[k].id < 200 /\ all_documents[l].id > 200

\* a specifier that names nothing in the source
UnresolvableWorkspace(w) ==
    IF isnumeric(w) THEN int(w) \notin ProjectIds
    ELSE \A k \in 1..Len(Projects) : Projects[k].name # w
UnresolvableFolder(f) ==
    f # "root" /\ \A k \in 1..Len(WimiDirs(0)) : WimiDirs(0)[k][1] # f
BadRequest ==
    \/ \E k \in 1..Len(workspace) : UnresolvableWorkspace(workspace[k])
    \/ \E k \in 1..Len(folder_identifiers_or_names) :
          UnresolvableFolder(folder_identifiers_or_names[k])

\* C13: when authentication fails, or a requested workspace or folder
\* specifier cannot be resolved, the program ends without any sink operation:
\* no knowledge base is looked up or created, no document listed, created,
\* updated or deleted.
C13_FatalBeforeSinkEffects ==
    (BadRequest \/ (pc = "aborted" /\ projects = <<>>))
        => (/\ knowledge_calls = <<>>
            /\ log = <<>>
            /\ pc \in {"auth", "pairs", "aborted"})

\* C13, when one workspace or as many workspaces as folders are given
C13_FatalWhenLengthsAgree ==
    (/\ BadRequest \/ (pc = "aborted" /\ projects = <<>>)
     /\ Len(workspace) \in {1, Len(folder_identifiers_or_names)})
        => (/\ knowledge_calls = <<>>
            /\ log = <<>>
            /\ pc \in {"auth", "pairs", "aborted"})

\* the second pair cannot be resolved: the program ends after the first pair
\* was listed, without a sink operation
C13_WitnessAborted ==
    /\ pc = "aborted"
    /\ j = 2
    /\ Len(all_documents) >= 1
    /\ knowledge_calls = <<>>
    /\ log = <<>>

\* ------------------------------------ the canonical entry among equal dates
\* the entries of E with the name of all_documents[k] for which the k-th
\* iteration has issued no delete
Undeleted(k) ==
    {e \in Range(existing_documents) :
        /\ e.name = all_documents[k].name
        /\ \A p \in At(k, "delete") : log[p].id # e.id}

\* C21: when several entries of E with the name of the document just processed
\* share the greatest createdAt, the duplicate cleanup with remove_duplicates
\* set has issued a delete for all entries of the name but one, and that one is
\* the entry selected as existing_document, an entry of greatest createdAt.
C21_KeptIsCanonical ==
    \A k \in 1..Len(all_documents) :
        (/\ Processed(k)
         /\ k = i - 1
         /\ remove_duplicates
         /\ Cardinality(Canonicals(all_documents[k].name)) > 1)
        => /\ Cardinality(Undeleted(k)) = 1
           /\ \A e \in Undeleted(k) : e = existing_document
           /\ existing_document \in Canonicals(all_documents[k].name)

\* C21 witness: three entries of the name of document 1, two of them with the
\* same greatest createdAt; the one selected is in the sink, the other one of
\* that date, which has the smaller sink id, and the older one are deleted
C21_Witness ==
    /\ remove_duplicates
    /\ Processed(1)
    /\ i = 2
    /\ Cardinality(Canonicals(all_documents[1].name)) = 2
    /\ existing_document \in Canonicals(all_documents[1].name)
    /\ existing_document.id \in SinkIds(sink)
    /\ \E e \in Canonicals(all_documents[1].name) :
          e.id < existing_document.id /\ e.id \notin SinkIds(sink)
    /\ \E o \in Range(existing_documents) :
          /\ o.name = all_documents[1].name
          /\ o.date < existing_document.date
          /\ o.id \notin SinkIds(sink)

====
